---- MODULE Spec2Model ----
(***************************************************************************)
(* A model of WebAppManifestPlugin (src/src/index.ts): construction with    *)
(* content validation, hook registration, and the processAssets callback    *)
(* that synthesizes and emits the web app manifest on every build pass.     *)
(*                                                                          *)
(* Strings that the code slices or matches are sequences of one-character   *)
(* strings; object keys and type tags are plain strings.                    *)
(***************************************************************************)
EXTENDS Integers, Sequences, FiniteSets, Bags, TLC

VARIABLES
    pc,          \* where the host is: "new", "constructed", "rejected", "applied"
                 \* (the compiler is idle), "compiling", "passDone", "passFailed"
    config,      \* the Config object handed to the constructor
    plugin,      \* the instance fields: content, destination, the three functions
    taps,        \* callbacks tapped on compiler.hooks.thisCompilation
    passNo,      \* number of compilations started so far
    publicPath,  \* compilation.options.output.publicPath of the current pass
    hostAssets,  \* Object.keys(assets) when the compilation was handed to the plugin
    assets,      \* compilation.assets: sequence of [name, source]
    chunks,      \* compilation.chunks: sequence of [name, ids, files]
    calls,       \* calls of the three classifier functions in the current pass
    emits,       \* compilation.emitAsset calls in the current pass
    chunkAdds,   \* compilation.chunks.add calls in the current pass
    error,       \* what the last constructor or callback threw, "none" if nothing
    fnPc,        \* pure-function harness: "in" before, "out" after the application
    fnIn,        \* pure-function harness: the argument
    fnOut        \* pure-function harness: the results

vars == << pc, config, plugin, taps, passNo, publicPath, hostAssets, assets, chunks,
           calls, emits, chunkAdds, error, fnPc, fnIn, fnOut >>

mainVars == << pc, config, plugin, taps, passNo, publicPath, hostAssets, assets, chunks,
               calls, emits, chunkAdds, error >>

fnVars == << fnPc, fnIn, fnOut >>

(***************************************************************************)
(* Bounds of the model.                                                     *)
(***************************************************************************)
MaxAssets == 3
MaxPasses == 2

(***************************************************************************)
(* Characters.                                                              *)
(***************************************************************************)
Digits == <<"0", "1", "2", "3", "4", "5", "6", "7", "8", "9">>

HexDigits == Digits \o <<"a", "b", "c", "d", "e", "f">>

LowerCase == <<"a", "b", "c", "d", "e", "f", "g", "h", "i", "j", "k", "l", "m",
               "n", "o", "p", "q", "r", "s", "t", "u", "v", "w", "x", "y", "z">>

UpperCase == <<"A", "B", "C", "D", "E", "F", "G", "H", "I", "J", "K", "L", "M",
               "N", "O", "P", "Q", "R", "S", "T", "U", "V", "W", "X", "Y", "Z">>

Alphabet == Digits \o LowerCase \o UpperCase \o <<"_", "-", ".", "/", "#", " ", ":">>

Range(s) == { s[i] : i \in 1..Len(s) }

DigitChars == Range(Digits)

WordChars == Range(Digits) \cup Range(LowerCase) \cup Range(UpperCase) \cup {"_"}

\* \d of the regular expressions
IsDigit(c) == c \in DigitChars

\* \w of the regular expressions
IsWord(c) == c \in WordChars

DigitValues == [c \in DigitChars |-> (CHOOSE i \in 1..10 : Digits[i] = c) - 1]

DigitValue(c) == DigitValues[c]

RECURSIVE Concat(_)
Concat(ss) == IF ss = <<>> THEN <<>> ELSE Head(ss) \o Concat(Tail(ss))

(***************************************************************************)
(* String.prototype.slice / charAt on the forms the code uses.              *)
(***************************************************************************)
\* path.slice(-1)
SliceLast(path) == IF Len(path) = 0 THEN <<>> ELSE << path[Len(path)] >>

\* path.charAt(0)
CharAt0(path) == IF Len(path) = 0 THEN <<>> ELSE << path[1] >>

\* path.slice(0, path.length - 1)
SliceButLast(path) == IF Len(path) = 0 THEN <<>> ELSE SubSeq(path, 1, Len(path) - 1)

\* path.slice(1)
SliceFrom1(path) == IF Len(path) = 0 THEN <<>> ELSE Tail(path)

trimSlashRight(path) == IF SliceLast(path) = <<"/">> THEN SliceButLast(path) ELSE path

trimSlashLeft(path) == IF CharAt0(path) = <<"/">> THEN SliceFrom1(path) ELSE path

normalizePathRightOnly(path) == trimSlashRight(path)

normalizePath(path) == trimSlashRight(trimSlashLeft(path))

(***************************************************************************)
(* Number <-> decimal string.                                               *)
(***************************************************************************)
\* parseInt(digits, 10) on a non-empty string of decimal digits
RECURSIVE parseInt10(_)
parseInt10(digits) ==
    IF digits = <<>> THEN 0
    ELSE 10 * parseInt10(SliceButLast(digits)) + DigitValue(digits[Len(digits)])

\* `${n}` for a non-negative integer n
RECURSIVE NumberToString(_)
NumberToString(n) ==
    IF n < 10 THEN << Digits[n + 1] >>
    ELSE NumberToString(n \div 10) \o << Digits[(n % 10) + 1] >>

(***************************************************************************)
(* The default icon functions and their regular expression                  *)
(*   /manifest\/icon_(\d+)-\w*\.(png|jpeg|jpg)$/                            *)
(***************************************************************************)
ManifestIconLiteral ==
    <<"m", "a", "n", "i", "f", "e", "s", "t", "/", "i", "c", "o", "n", "_">>

IconExtensions == { <<"p", "n", "g">>, <<"j", "p", "e", "g">>, <<"j", "p", "g">> }

\* The ways the pattern matches fileName: i is where "manifest/icon_" starts,
\* j the position of "-", k the position of the "." before the extension.
IconPatternMatches(fileName) ==
    LET n == Len(fileName)
        starts == { i \in 1..n : fileName[i] = "m" }
        dashes == { j \in 1..n : fileName[j] = "-" }
        dots   == { k \in 1..n : fileName[k] = "." }
    IN  { m \in [i : starts, j : dashes, k : dots] :
            /\ m.i + 14 < m.j
            /\ m.j < m.k
            /\ SubSeq(fileName, m.i, m.i + 13) = ManifestIconLiteral
            /\ \A p \in (m.i + 14)..(m.j - 1) : IsDigit(fileName[p])
            /\ \A p \in (m.j + 1)..(m.k - 1) : IsWord(fileName[p])
            /\ SubSeq(fileName, m.k + 1, n) \in IconExtensions }

\* fileName.match(...): null, or the leftmost match with its two groups
IconPatternMatch(fileName) ==
    LET ms == IconPatternMatches(fileName)
    IN  IF ms = {}
        THEN [matched |-> FALSE, g1 |-> <<>>, g2 |-> <<>>]
        ELSE LET m == CHOOSE m \in ms : \A o \in ms : m.i <= o.i
             IN  [matched |-> TRUE,
                  g1 |-> SubSeq(fileName, m.i + 14, m.j - 1),
                  g2 |-> SubSeq(fileName, m.k + 1, Len(fileName))]

defaultIsAssetManifestIcon(fileName) == IconPatternMatch(fileName).matched

defaultGetIconSizeWidthOnly(fileName) ==
    LET match == IconPatternMatch(fileName)
        dimension == IF match.matched /\ match.g1 # <<>> THEN parseInt10(match.g1) ELSE 0
    IN  IF dimension = 0
        THEN [threw |-> TRUE, width |-> 0, height |-> 0]
        ELSE [threw |-> FALSE, width |-> dimension, height |-> 0]

\* dimension is null, "" or 0 exactly when the function throws; parseInt of a
\* string of digits is never NaN
defaultGetIconSize(fileName) ==
    LET match == IconPatternMatch(fileName)
        dimension == IF match.matched /\ match.g1 # <<>> THEN parseInt10(match.g1) ELSE 0
    IN  IF dimension = 0
        THEN [threw |-> TRUE, width |-> 0, height |-> 0]
        ELSE [threw |-> FALSE, width |-> dimension, height |-> dimension]

ImageSlash == <<"i", "m", "a", "g", "e", "/">>

defaultGetIconTypePng(fileName) ==
    LET match == IconPatternMatch(fileName)
    IN  IF ~match.matched
        THEN [threw |-> TRUE, type |-> <<>>]
        ELSE [threw |-> FALSE, type |-> ImageSlash \o <<"p", "n", "g">>]

defaultGetIconType(fileName) ==
    LET match == IconPatternMatch(fileName)
        extension == IF match.matched THEN match.g2 ELSE <<>>
    IN  IF extension = <<>>
        THEN [threw |-> TRUE, type |-> <<>>]
        ELSE [threw |-> FALSE, type |-> ImageSlash \o extension]

(***************************************************************************)
(* JavaScript values.  A value is [t, s, b, items]: its kind, its text when *)
(* it is a string or a number, its truth value when it is a boolean, its    *)
(* elements when it is an array.  An array element is an object abstracted  *)
(* to the four properties the code and the manifest read, or null or a      *)
(* string; a property is [t, s].                                            *)
(***************************************************************************)
Undefined == [t |-> "undefined", s |-> <<>>, b |-> FALSE, items |-> <<>>]
Null      == [t |-> "null", s |-> <<>>, b |-> FALSE, items |-> <<>>]
Str(s)    == [t |-> "string", s |-> s, b |-> FALSE, items |-> <<>>]
Bool(b)   == [t |-> "boolean", s |-> <<>>, b |-> b, items |-> <<>>]
Num(s)    == [t |-> "number", s |-> s, b |-> FALSE, items |-> <<>>]
Arr(xs)   == [t |-> "array", s |-> <<>>, b |-> FALSE, items |-> xs]

UndefinedProp == [t |-> "undefined", s |-> <<>>]
StrProp(s)    == [t |-> "string", s |-> s]
NumProp(s)    == [t |-> "number", s |-> s]

\* the typeof operator
TypeOf(x) == IF x.t \in {"null", "array", "object"} THEN "object" ELSE x.t

\* an object: a sequence of [key, value] in property order
HasKey(obj, k) == \E i \in 1..Len(obj) : obj[i].key = k

\* obj[k], undefined when the property is absent
Get(obj, k) ==
    IF HasKey(obj, k)
    THEN obj[CHOOSE i \in 1..Len(obj) : obj[i].key = k].value
    ELSE Undefined

SetKeyLast(obj, k, v) ==
    Append(SelectSeq(obj, LAMBDA m : m.key # k), [key |-> k, value |-> v])

\* obj[k] = v: an existing property keeps its place, a new one goes last
SetKey(obj, k, v) ==
    IF HasKey(obj, k)
    THEN [i \in 1..Len(obj) |-> IF obj[i].key = k THEN [key |-> k, value |-> v] ELSE obj[i]]
    ELSE Append(obj, [key |-> k, value |-> v])

Keys(obj) == { obj[i].key : i \in 1..Len(obj) }

(***************************************************************************)
(* The assertions of validateManifestContent.  Each yields TRUE when the    *)
(* assertion passes and FALSE when it throws an AssertionError.             *)
(***************************************************************************)
DISPLAY_MODES ==
    { <<"f", "u", "l", "l", "s", "c", "r", "e", "e", "n">>,
      <<"s", "t", "a", "n", "d", "a", "l", "o", "n", "e">>,
      <<"m", "i", "n", "i", "m", "a", "l", "-", "u", "i">>,
      <<"b", "r", "o", "w", "s", "e", "r">> }

assertNullableString(x) == TypeOf(x) = "undefined" \/ TypeOf(x) = "string"

assertNullableBoolean(x) == TypeOf(x) = "undefined" \/ TypeOf(x) = "boolean"

assertNullableDisplayModeAny(x) == TRUE

assertNullableDisplayMode(x) ==
    TypeOf(x) = "undefined" \/ (x.t = "string" /\ x.s \in DISPLAY_MODES)

assertImageResource(x) == x.t = "object" /\ x.src.t = "string"

assertExternalApplicationResource(x) == x.t = "object" /\ x.platform.t = "string"

\* Array.prototype.forEach returns undefined, which assert() takes as false;
\* an element that fails its own assertion throws before that.
ForEachIsTruthy(xs, elementPasses) == FALSE

\* assert(typeof icons === 'undefined' || (Array.isArray(icons) && icons.forEach(...)))
assertIcons(icons) ==
    \/ TypeOf(icons) = "undefined"
    \/ /\ icons.t = "array"
       /\ ForEachIsTruthy(icons.items,
              \A i \in 1..Len(icons.items) : assertImageResource(icons.items[i]))

\* assert(typeof related_applications === 'undefined' || (Array.isArray(...) && ...forEach(...)))
assertRelatedApplications(related_applications) ==
    \/ TypeOf(related_applications) = "undefined"
    \/ /\ related_applications.t = "array"
       /\ ForEachIsTruthy(related_applications.items,
              \A i \in 1..Len(related_applications.items) :
                  assertExternalApplicationResource(related_applications.items[i]))

CleanLoopNullify(validatedManifest) ==
    [i \in 1..Len(validatedManifest) |->
        IF validatedManifest[i].value.t = "undefined"
        THEN [key |-> validatedManifest[i].key, value |-> Null]
        ELSE validatedManifest[i]]

\* The clean-up loop iterates over the enumerable properties of the function
\* validateManifestContent itself, which has none: nothing is deleted, and
\* validatedManifest is not what the loop touches.
CleanLoop(validatedManifest) == validatedManifest

AllowedKeys ==
    <<"name", "short_name", "start_url", "display", "background_color", "theme_color",
      "description", "icons", "prefer_related_applications", "related_applications">>

validateManifestContentPassAll(manifestContent) ==
    [threw |-> FALSE, value |-> manifestContent]

validateManifestContentOld(manifestContent) ==
    [threw |-> FALSE,
     value |-> [i \in 1..Len(AllowedKeys) |->
                   [key |-> AllowedKeys[i],
                    value |-> IF AllowedKeys[i] \in {"theme_color", "prefer_related_applications"}
                              THEN Undefined
                              ELSE Get(manifestContent, AllowedKeys[i])]]]

validateManifestContent(manifestContent) ==
    LET background_color == Get(manifestContent, "background_color")
        description == Get(manifestContent, "description")
        display == Get(manifestContent, "display")
        icons == Get(manifestContent, "icons")
        lang == Get(manifestContent, "lang")
        name == Get(manifestContent, "name")
        prefer_related_applications == Get(manifestContent, "prefer_related_applications")
        related_applications == Get(manifestContent, "related_applications")
        short_name == Get(manifestContent, "short_name")
        start_url == Get(manifestContent, "start_url")
        theme_color == Get(manifestContent, "theme_color")
        passes ==
            /\ assertNullableString(background_color)
            /\ assertNullableString(description)
            /\ assertNullableString(display)
            /\ assertNullableString(lang)
            /\ assertNullableString(name)
            /\ assertNullableBoolean(prefer_related_applications)
            /\ assertNullableString(related_applications)
            /\ assertNullableString(short_name)
            /\ assertNullableString(start_url)
            /\ assertNullableString(theme_color)
            /\ assertIcons(icons)
            /\ assertRelatedApplications(related_applications)
            /\ assertNullableDisplayMode(display)
        validatedManifest ==
            << [key |-> "name", value |-> name],
               [key |-> "short_name", value |-> short_name],
               [key |-> "start_url", value |-> start_url],
               [key |-> "display", value |-> display],
               [key |-> "background_color", value |-> background_color],
               [key |-> "theme_color", value |-> theme_color],
               [key |-> "description", value |-> description],
               [key |-> "icons", value |-> icons],
               [key |-> "prefer_related_applications", value |-> prefer_related_applications],
               [key |-> "related_applications", value |-> related_applications] >>
    IN  IF passes
        THEN [threw |-> FALSE, value |-> CleanLoop(validatedManifest)]
        ELSE [threw |-> TRUE, value |-> <<>>]

(***************************************************************************)
(* JSON.stringify.  The JSON text is kept as its members in the order they  *)
(* are written: a property whose value is undefined is not written, at the  *)
(* top level and inside the objects of an array.  Reading the members back  *)
(* is JSON.parse.                                                           *)
(***************************************************************************)
IsWritten(m) == m.value.t # "undefined"

StringifyElement(e) ==
    [t |-> e.t,
     members |-> SelectSeq(<< [key |-> "type", value |-> e.type],
                              [key |-> "sizes", value |-> e.sizes],
                              [key |-> "src", value |-> e.src],
                              [key |-> "platform", value |-> e.platform] >>, IsWritten)]

StringifyValue(v) ==
    [t |-> v.t, s |-> v.s, b |-> v.b,
     items |-> [i \in 1..Len(v.items) |-> StringifyElement(v.items[i])]]

JSONStringify(obj) ==
    LET written == SelectSeq(obj, IsWritten)
    IN  [i \in 1..Len(written) |->
            [key |-> written[i].key, value |-> StringifyValue(written[i].value)]]

(***************************************************************************)
(* md5(content): the library digest is replaced by a deterministic digest   *)
(* of the same shape, 32 lowercase hexadecimal characters computed from the *)
(* characters of the text.                                                  *)
(***************************************************************************)
Codes == [c \in Range(Alphabet) |-> CHOOSE i \in 1..Len(Alphabet) : Alphabet[i] = c]

Code(c) == Codes[c]

KeyNames == AllowedKeys \o <<"type", "sizes", "src", "platform", "lang", "invalid_key">>

KeyCode(k) == 100 + (CHOOSE i \in 1..Len(KeyNames) : KeyNames[i] = k)

TagNames == <<"undefined", "null", "string", "boolean", "number", "array", "object">>

TagCode(t) == 120 + (CHOOSE i \in 1..Len(TagNames) : TagNames[i] = t)

TextChars(s) == [i \in 1..Len(s) |-> Code(s[i])]

TextOfProperty(m) == << KeyCode(m.key), TagCode(m.value.t) >> \o TextChars(m.value.s)

TextOfElement(e) ==
    << TagCode(e.t) >>
    \o Concat([i \in 1..Len(e.members) |-> TextOfProperty(e.members[i])]) \o << 140 >>

TextOfMember(m) ==
    << KeyCode(m.key), TagCode(m.value.t) >> \o TextChars(m.value.s)
    \o << IF m.value.b THEN 2 ELSE 1 >>
    \o Concat([i \in 1..Len(m.value.items) |-> TextOfElement(m.value.items[i])]) \o << 141 >>

TextOf(content) == Concat([i \in 1..Len(content) |-> TextOfMember(content[i])])

\* a position-weighted sum of the character codes, modulo 2^16 (the cardinality
\* of a bag is the sum of its counts)
Digest16(text, multiplier) ==
    BagCardinality([i \in 1..Len(text) |-> text[i] * (((i * multiplier) % 251) + 1)]) % 65536

Hex4(n) ==
    << HexDigits[(n \div 4096) + 1], HexDigits[((n \div 256) % 16) + 1],
       HexDigits[((n \div 16) % 16) + 1], HexDigits[(n % 16) + 1] >>

Multipliers == <<31, 37, 41, 43, 47, 53, 59, 61>>

Md5OfText(text) ==
    Concat([i \in 1..Len(Multipliers) |->
               Hex4(Digest16(text, Multipliers[i]))])

\* the text is computed once and then digested
md5(content) == CHOOSE digest \in { Md5OfText(text) : text \in { TextOf(content) } } : TRUE

\* s.substring(0, n)
Substring0(s, n) == SubSeq(s, 1, IF n < Len(s) THEN n ELSE Len(s))

(***************************************************************************)
(* The functions a Config may carry.  A function value is named by a        *)
(* string: "undefined" when the option is left out, "default..." for the    *)
(* functions of index.ts, "custom..." for the functions the tests pass in.  *)
(***************************************************************************)
ThisIsLiteral ==
    <<"t", "h", "i", "s", "_", "i", "s", "_", "a", "_", "m", "a", "n", "i", "f", "e", "s", "t",
      "_", "i", "c", "o", "n">>

DotPng == <<".", "p", "n", "g">>

\* (fileName) => /this_is_a_manifest_icon.*\.png$/.test(fileName)
customIsAssetManifestIcon(fileName) ==
    LET n == Len(fileName)
    IN  \E i \in 1..n :
            /\ i + 22 + 4 <= n
            /\ SubSeq(fileName, i, i + 22) = ThisIsLiteral
            /\ SubSeq(fileName, n - 3, n) = DotPng

\* () => ({ width: 120, height: 90 })
customGetIconSize(fileName) == [threw |-> FALSE, width |-> 120, height |-> 90]

\* () => 'image/png'
customGetIconType(fileName) == [threw |-> FALSE, type |-> ImageSlash \o <<"p", "n", "g">>]

\* a predicate that fails on one asset:
\* (fileName) => { if (fileName === 'logo.png') throw new Error(); return default(fileName) }
throwingIsAssetManifestIcon(fileName) ==
    [threw |-> fileName = <<"l", "o", "g", "o">> \o DotPng,
     value |-> defaultIsAssetManifestIcon(fileName)]

\* whether the call isAssetManifestIcon(fileName) throws
IsAssetManifestIconThrows(f, fileName) ==
    f = "throwingIsAssetManifestIcon" /\ throwingIsAssetManifestIcon(fileName).threw

\* what the call isAssetManifestIcon(fileName) returns
CallIsAssetManifestIcon(f, fileName) ==
    CASE f = "defaultIsAssetManifestIcon" -> defaultIsAssetManifestIcon(fileName)
      [] f = "customIsAssetManifestIcon" -> customIsAssetManifestIcon(fileName)
      [] OTHER -> throwingIsAssetManifestIcon(fileName).value

\* a size function that gives no usable dimension: () => ({ width: 0, height: 0 })
zeroGetIconSize(fileName) == [threw |-> FALSE, width |-> 0, height |-> 0]

CallGetIconSize(f, fileName) ==
    CASE f = "defaultGetIconSize" -> defaultGetIconSize(fileName)
      [] f = "customGetIconSize" -> customGetIconSize(fileName)
      [] OTHER -> zeroGetIconSize(fileName)

CallGetIconType(f, fileName) ==
    IF f = "defaultGetIconType" THEN defaultGetIconType(fileName) ELSE customGetIconType(fileName)

(***************************************************************************)
(* The constructor.                                                         *)
(***************************************************************************)
NoPlugin ==
    [content |-> <<>>, destination |-> <<>>, isAssetManifestIcon |-> "undefined",
     getIconSize |-> "undefined", getIconType |-> "undefined"]

\* a destructuring default: the default applies when the option is undefined
DefaultTo(given, default) == IF given = "undefined" THEN default ELSE given

ConstructorNoValidation(cfg) ==
    [threw |-> FALSE,
     this |-> [content |-> cfg.content,
               destination |-> cfg.destination,
               isAssetManifestIcon |->
                   DefaultTo(cfg.isAssetManifestIcon, "defaultIsAssetManifestIcon"),
               getIconSize |-> DefaultTo(cfg.getIconSize, "defaultGetIconSize"),
               getIconType |-> DefaultTo(cfg.getIconType, "defaultGetIconType")]]

ConstructorDefaultsOnly(cfg) ==
    LET validated == validateManifestContent(cfg.content)
    IN  IF validated.threw
        THEN [threw |-> TRUE, this |-> NoPlugin]
        ELSE [threw |-> FALSE,
              this |-> [content |-> validated.value,
                        destination |-> cfg.destination,
                        isAssetManifestIcon |-> "defaultIsAssetManifestIcon",
                        getIconSize |-> "defaultGetIconSize",
                        getIconType |-> "defaultGetIconType"]]

Constructor(cfg) ==
    LET validated == validateManifestContent(cfg.content)
    IN  IF validated.threw
        THEN [threw |-> TRUE, this |-> NoPlugin]
        ELSE [threw |-> FALSE,
              this |-> [content |-> validated.value,
                        destination |-> cfg.destination,
                        isAssetManifestIcon |->
                            DefaultTo(cfg.isAssetManifestIcon, "defaultIsAssetManifestIcon"),
                        getIconSize |-> DefaultTo(cfg.getIconSize, "defaultGetIconSize"),
                        getIconType |-> DefaultTo(cfg.getIconType, "defaultGetIconType")]]

(***************************************************************************)
(* The processAssets callback, as a function of the instance and of the     *)
(* compilation it is handed.                                                *)
(***************************************************************************)
NamesOf(as) == [i \in 1..Len(as) |-> as[i].name]

\* the place of the first name on which the predicate throws, 0 when there is none
FirstThrow(this, names) ==
    IF \E i \in 1..Len(names) : IsAssetManifestIconThrows(this.isAssetManifestIcon, names[i])
    THEN CHOOSE i \in 1..Len(names) :
             /\ IsAssetManifestIconThrows(this.isAssetManifestIcon, names[i])
             /\ \A j \in 1..(i - 1) :
                    ~IsAssetManifestIconThrows(this.isAssetManifestIcon, names[j])
    ELSE 0

\* Object.keys(assets).filter((fileName) => isAssetManifestIcon(fileName)):
\* the predicate is called on each name in turn, up to the first call that throws
FilterCalls(this, names) ==
    LET last == IF FirstThrow(this, names) = 0 THEN Len(names) ELSE FirstThrow(this, names)
    IN  [i \in 1..last |->
            [fn |-> "isAssetManifestIcon", impl |-> this.isAssetManifestIcon, arg |-> names[i]]]

Accepts(this, fileName) == CallIsAssetManifestIcon(this.isAssetManifestIcon, fileName)

FilterIconsAll(this, names) == names

FilterIcons(this, names) == SelectSeq(names, LAMBDA fileName : Accepts(this, fileName))

\* .map((fileName) => { getIconSize; sizes; getIconType; return {fileName, sizes, type} }),
\* which stops at the first call that throws
RECURSIVE MapIcons(_, _, _, _)
MapIcons(this, accepted, i, acc) ==
    IF i > Len(accepted) THEN acc
    ELSE LET fileName == accepted[i]
             size == CallGetIconSize(this.getIconSize, fileName)
             callsSize == Append(acc.calls,
                 [fn |-> "getIconSize", impl |-> this.getIconSize, arg |-> fileName])
         IN  IF size.threw
             THEN [threw |-> TRUE, calls |-> callsSize, iconAssets |-> acc.iconAssets]
             ELSE LET sizes == NumberToString(size.width) \o <<"x">>
                                   \o NumberToString(size.height)
                      type == CallGetIconType(this.getIconType, fileName)
                      callsType == Append(callsSize,
                          [fn |-> "getIconType", impl |-> this.getIconType, arg |-> fileName])
                  IN  IF type.threw
                      THEN [threw |-> TRUE, calls |-> callsType,
                            iconAssets |-> acc.iconAssets]
                      ELSE MapIcons(this, accepted, i + 1,
                               [threw |-> FALSE, calls |-> callsType,
                                iconAssets |-> Append(acc.iconAssets,
                                    [fileName |-> fileName, sizes |-> sizes,
                                     type |-> type.type])])

\* `${trimSlashRight(publicPath)}/${fileName}`
IconSrc(publicPathText, fileName) == trimSlashRight(publicPathText) \o <<"/">> \o fileName

\* iconAssets.map(({ fileName, sizes, type }) => ({ type, sizes, src }))
BuildIcons(iconAssets, publicPathText) ==
    [i \in 1..Len(iconAssets) |->
        [t |-> "object",
         type |-> StrProp(iconAssets[i].type),
         sizes |-> StrProp(iconAssets[i].sizes),
         src |-> StrProp(IconSrc(publicPathText, iconAssets[i].fileName)),
         platform |-> UndefinedProp]]

ManifestLiteral == <<"m", "a", "n", "i", "f", "e", "s", "t">>

DotJson == <<".", "j", "s", "o", "n">>

ManifestFileNameOfDestination(destination, content) ==
    destination \o <<"/">> \o ManifestLiteral \o <<"-">>
    \o Substring0(md5(content), 8) \o DotJson

\* `${normalizePath(this.destination)}/manifest-${md5(content).substring(0, 8)}.json`
ManifestFileName(destination, content) ==
    normalizePath(destination) \o <<"/">> \o ManifestLiteral \o <<"-">>
    \o Substring0(md5(content), 8) \o DotJson

emitAssetOverFirst(as, filename, source) ==
    IF as = <<>> THEN << [name |-> filename, source |-> source] >>
    ELSE << [name |-> filename, source |-> source] >> \o Tail(as)

\* compilation.emitAsset(filename, source): the asset is added under filename
emitAsset(as, filename, source) ==
    IF \E i \in 1..Len(as) : as[i].name = filename
    THEN [i \in 1..Len(as) |->
            IF as[i].name = filename THEN [name |-> filename, source |-> source] ELSE as[i]]
    ELSE Append(as, [name |-> filename, source |-> source])

AppManifestChunkNoFile(filename) == [name |-> "app-manifest", ids |-> <<>>, files |-> {}]

\* new webpack.Chunk('app-manifest'); chunk.ids = []; chunk.files.add(filename)
AppManifestChunk(filename) == [name |-> "app-manifest", ids |-> <<>>, files |-> {filename}]

NoOutcomeButEmitted(as, cs, thrown, theCalls) ==
    [error |-> thrown, calls |-> theCalls,
     assets |-> emitAsset(as, ManifestLiteral \o DotJson, <<>>), chunks |-> cs,
     emits |-> 1, chunkAdds |-> 0]

\* a throw leaves the callback before line 299: the compilation is as it was
NoOutcome(as, cs, thrown, theCalls) ==
    [error |-> thrown, calls |-> theCalls, assets |-> as, chunks |-> cs,
     emits |-> 0, chunkAdds |-> 0]

EmitTwice(as, cs, theCalls, filename, content) ==
    [error |-> "none", calls |-> theCalls,
     assets |-> emitAsset(emitAsset(as, filename, content), filename, content),
     chunks |-> Append(Append(cs, AppManifestChunk(filename)), AppManifestChunk(filename)),
     emits |-> 2, chunkAdds |-> 2]

\* compilation.emitAsset(filename, new RawSource(content)); compilation.chunks.add(chunk)
EmitAndRegister(as, cs, theCalls, filename, content) ==
    [error |-> "none", calls |-> theCalls,
     assets |-> emitAsset(as, filename, content),
     chunks |-> Append(cs, AppManifestChunk(filename)),
     emits |-> 1, chunkAdds |-> 1]

\* the callback from the filter on: lines 271-309
SynthesizeAndEmit(this, publicPathText, as, cs) ==
    LET names == NamesOf(as)
        filterCalls == FilterCalls(this, names)
    IN  IF FirstThrow(this, names) # 0
        THEN NoOutcome(as, cs, "Error", filterCalls)
        ELSE LET accepted == FilterIcons(this, names)
                 mapped == MapIcons(this, accepted, 1,
                               [threw |-> FALSE, calls |-> filterCalls, iconAssets |-> <<>>])
             IN  IF mapped.threw
                 THEN NoOutcome(as, cs, "Error", mapped.calls)
                 ELSE LET icons == BuildIcons(mapped.iconAssets, publicPathText)
                          content == JSONStringify(SetKey(this.content, "icons", Arr(icons)))
                          filename == ManifestFileName(this.destination, content)
                      IN  EmitAndRegister(as, cs, mapped.calls, filename, content)

InstanceAfterKeepingIcons(this, content) ==
    IF content = <<>> THEN this
    ELSE [this EXCEPT !.content =
             SetKey(this.content, "icons",
                    Arr(BuildIcons(<< [fileName |-> <<"x">>, sizes |-> <<"1", "x", "1">>,
                                       type |-> <<"t">>] >>, <<>>)))]

InstanceAfterMovingDestination(this, content) ==
    IF content = <<>> THEN this
    ELSE [this EXCEPT !.destination = this.destination \o <<"/", "x">>]

\* the instance when the callback returns or throws, content being the text it
\* emitted (none when it threw): the callback reads this.content, this.destination
\* and the three functions and assigns to none of them
InstanceAfter(this, content) == this

processAssetsCallbackNoCheck(this, thePublicPath, as, cs) ==
    SynthesizeAndEmit(this, thePublicPath.s, as, cs)

processAssetsCallback(this, thePublicPath, as, cs) ==
    IF TypeOf(thePublicPath) # "string"
    THEN NoOutcome(as, cs, "TypeError", <<>>)
    ELSE SynthesizeAndEmit(this, thePublicPath.s, as, cs)

(***************************************************************************)
(* The inputs the model draws from.                                         *)
(***************************************************************************)
DashHash == <<"-", "a", "b", "c", "d", "1", "2", "3", "4">>

\* manifest/icon_192-abcd1234.png
Icon192 == ManifestIconLiteral \o <<"1", "9", "2">> \o DashHash \o DotPng

\* manifest/icon_512-abcd1234.png
Icon512 == ManifestIconLiteral \o <<"5", "1", "2">> \o DashHash \o DotPng

\* manifest/icon_48-.jpeg
Icon48Jpeg == ManifestIconLiteral \o <<"4", "8", "-", ".", "j", "p", "e", "g">>

\* manifest/icon_192-h.png
Icon192h == ManifestIconLiteral \o <<"1", "9", "2", "-", "h">> \o DotPng

\* manifest/definitely_not_a_manifest_icon-abcd1234.png
NotAnIcon ==
    ManifestLiteral
    \o <<"/", "d", "e", "f", "i", "n", "i", "t", "e", "l", "y", "_", "n", "o", "t", "_", "a", "_">>
    \o ManifestLiteral \o <<"_", "i", "c", "o", "n">> \o DashHash \o DotPng

\* manifest/this_is_a_manifest_icon-abcd1234.png
ThisIsAnIcon == ManifestLiteral \o <<"/">> \o ThisIsLiteral \o DashHash \o DotPng

\* logo.png
LogoPng == <<"l", "o", "g", "o">> \o DotPng

\* icon_192-abcd1234.png and icon_512-abcd1234.png, outside any manifest/ folder
BareIcon192 == <<"i", "c", "o", "n", "_", "1", "9", "2">> \o DashHash \o DotPng
BareIcon512 == <<"i", "c", "o", "n", "_", "5", "1", "2">> \o DashHash \o DotPng

CoreNames == { Icon192, Icon48Jpeg, ThisIsAnIcon, LogoPng }

IsInjective(s) == \A i, j \in 1..Len(s) : s[i] = s[j] => i = j

ScenarioLists ==
    { << BareIcon192, BareIcon512, LogoPng >>,
      << Icon192, Icon512, LogoPng >>,
      << Icon192, Icon512, NotAnIcon, ThisIsAnIcon >>,
      << Icon192h >> }

\* the keys of an object are distinct: an asset list holds no name twice
AssetLists ==
    ScenarioLists
    \cup { s \in UNION { [1..n -> CoreNames] : n \in 0..MaxAssets } : IsInjective(s) }

Assets ==  <<"/", "a", "s", "s", "e", "t", "s">>

\* output.publicPath as the tests set it, left out, or set to a value that is not a string
PublicPaths ==
    { Str(<<"/">>), Str(<<>>), Str(Assets \o <<"/">>), Str(Assets), Str(Assets \o <<"/", "/">>),
      Undefined, Bool(TRUE) }

Destinations ==
    { <<"/">> \o ManifestLiteral \o <<"/">>, ManifestLiteral \o <<"/">>,
      <<"/">> \o ManifestLiteral, ManifestLiteral, <<>> }

Tumblr == <<"T", "u", "m", "b", "l", "r">>

Colour == <<"#", "3", "6", "4", "6", "5", "d">>

Standalone == <<"s", "t", "a", "n", "d", "a", "l", "o", "n", "e">>

EmptyContent == <<>>

TestContent ==
    << [key |-> "name", value |-> Str(Tumblr)],
       [key |-> "short_name", value |-> Str(Tumblr)],
       [key |-> "background_color", value |-> Str(Colour)],
       [key |-> "theme_color", value |-> Str(Colour)],
       [key |-> "display", value |-> Str(Standalone)] >>

InvalidKeyContent ==
    << [key |-> "name", value |-> Str(Tumblr)],
       [key |-> "invalid_key", value |-> Str(<<"x">>)] >>

CoreContents == { EmptyContent, TestContent }

InputKeys == Range(AllowedKeys) \cup { "lang", "invalid_key" }

ImageResource ==
    [t |-> "object", type |-> UndefinedProp, sizes |-> UndefinedProp,
     src |-> StrProp(<<"a", ".", "p", "n", "g">>), platform |-> UndefinedProp]

ExternalApplicationResource ==
    [t |-> "object", type |-> UndefinedProp, sizes |-> UndefinedProp,
     src |-> UndefinedProp, platform |-> StrProp(<<"p", "l", "a", "y">>)]

NullElement ==
    [t |-> "null", type |-> UndefinedProp, sizes |-> UndefinedProp,
     src |-> UndefinedProp, platform |-> UndefinedProp]

SampleValues ==
    { Undefined, Null, Str(<<"x">>), Bool(TRUE), Bool(FALSE), Num(<<"1">>), Arr(<<>>),
      Arr(<< ImageResource >>), Arr(<< ExternalApplicationResource >>),
      Arr(<< NullElement >>) }
    \cup { Str(m) : m \in DISPLAY_MODES }

SingleKeyContents ==
    { << [key |-> k, value |-> v] >> : k \in InputKeys, v \in SampleValues }

ContentInputs == CoreContents \cup { InvalidKeyContent } \cup SingleKeyContents

FunctionOptions(custom) == { "undefined", custom }

DefaultDestination == <<"/">> \o ManifestLiteral

\* destinations with no directory in them, or with more than one slash at an end
OddDestinations == { <<"/">>, <<"/", "/", "o", "u", "t">>, <<"o", "u", "t", "/", "/">> }

Configs ==
    { c \in [content : ContentInputs,
             destination : Destinations \cup OddDestinations,
             isAssetManifestIcon : FunctionOptions("customIsAssetManifestIcon")
                                       \cup { "throwingIsAssetManifestIcon" },
             getIconSize : FunctionOptions("customGetIconSize") \cup { "zeroGetIconSize" },
             getIconType : FunctionOptions("customGetIconType")] :
        \/ /\ c.content \in CoreContents
           /\ c.destination \in Destinations
           /\ c.isAssetManifestIcon # "throwingIsAssetManifestIcon"
           /\ c.getIconSize # "zeroGetIconSize"
        \/ /\ c.content = EmptyContent
           /\ c.destination = DefaultDestination
        \/ /\ c.content = EmptyContent
           /\ c.destination \in OddDestinations
           /\ c.isAssetManifestIcon = "undefined"
           /\ c.getIconSize = "undefined"
           /\ c.getIconType = "undefined"
        \/ /\ c.destination = DefaultDestination
           /\ c.isAssetManifestIcon = "undefined"
           /\ c.getIconSize = "undefined"
           /\ c.getIconType = "undefined" }

NoConfig ==
    [content |-> <<>>, destination |-> <<>>, isAssetManifestIcon |-> "undefined",
     getIconSize |-> "undefined", getIconType |-> "undefined"]

\* the passes explored for a content outside CoreContents and for a destination
\* other than the default one
FewLists == { << Icon192, Icon512, LogoPng >>, <<>> }

(***************************************************************************)
(* The state machine: new WebAppManifestPlugin(config), plugin.apply(       *)
(* compiler), then build passes: the host creates a compilation and fires   *)
(* thisCompilation, then fires processAssets.                               *)
(***************************************************************************)
NoFn == [kind |-> "none", text |-> <<>>, digits |-> <<>>, hash |-> <<>>, ext |-> <<>>]

NoFnOut == [assets |-> <<>>, chunks |-> <<>>, error |-> "none", left |-> <<>>,
            right |-> <<>>, both |-> <<>>]

MainInit ==
    /\ pc = "new"
    /\ config = NoConfig
    /\ plugin = NoPlugin
    /\ taps = 0
    /\ passNo = 0
    /\ publicPath = Undefined
    /\ hostAssets = <<>>
    /\ assets = <<>>
    /\ chunks = <<>>
    /\ calls = <<>>
    /\ emits = 0
    /\ chunkAdds = 0
    /\ error = "none"

Init ==
    /\ MainInit
    /\ fnPc = "idle"
    /\ fnIn = NoFn
    /\ fnOut = NoFnOut

\* new WebAppManifestPlugin(cfg)
Construct(cfg) ==
    /\ pc = "new"
    /\ LET made == Constructor(cfg)
       IN  /\ config' = cfg
           /\ plugin' = made.this
           /\ pc' = IF made.threw THEN "rejected" ELSE "constructed"
           /\ error' = IF made.threw THEN "AssertionError" ELSE "none"
    /\ UNCHANGED << taps, passNo, publicPath, hostAssets, assets, chunks, calls, emits,
                    chunkAdds >>
    /\ UNCHANGED fnVars

\* plugin.apply(compiler): compiler.hooks.thisCompilation.tap(pluginName, ...)
Apply ==
    /\ pc = "constructed"
    /\ taps' = taps + 1
    /\ pc' = "applied"
    /\ UNCHANGED << config, plugin, passNo, publicPath, hostAssets, assets, chunks, calls,
                    emits, chunkAdds, error >>
    /\ UNCHANGED fnVars

\* the assets the host has produced when processAssets fires
HostAssetsOf(names) == [i \in 1..Len(names) |-> [name |-> names[i], source |-> <<>>]]

\* the chunks the host has produced by then: a chunk "main" holding its assets
HostChunksOf(names) ==
    IF names = <<>> THEN <<>>
    ELSE << [name |-> "main", ids |-> <<>>, files |-> Range(names)] >>

\* The host starts a compilation and fires thisCompilation: the plugin's
\* callback taps compilation.hooks.processAssets.
ThisCompilation(names, thePublicPath) ==
    /\ pc = "applied"
    /\ passNo < MaxPasses
    /\ \/ config.content \in CoreContents /\ config.destination = DefaultDestination
       \/ names \in FewLists
    /\ passNo' = passNo + 1
    /\ publicPath' = thePublicPath
    /\ hostAssets' = names
    /\ assets' = HostAssetsOf(names)
    /\ chunks' = HostChunksOf(names)
    /\ calls' = <<>>
    /\ emits' = 0
    /\ chunkAdds' = 0
    /\ error' = "none"
    /\ pc' = "compiling"
    /\ UNCHANGED << config, plugin, taps >>
    /\ UNCHANGED fnVars

\* the text of the asset a callback added to as, <<>> when it added none
EmittedSourceOf(after, as) ==
    IF Len(after) > Len(as) THEN after[Len(after)].source ELSE <<>>

\* The host fires processAssets at the summarize stage: the callback runs.
ProcessAssets ==
    /\ pc = "compiling"
    /\ \E done \in { processAssetsCallback(plugin, publicPath, assets, chunks) } :
           /\ assets' = done.assets
           /\ chunks' = done.chunks
           /\ calls' = done.calls
           /\ emits' = done.emits
           /\ chunkAdds' = done.chunkAdds
           /\ error' = done.error
           /\ pc' = IF done.error = "none" THEN "passDone" ELSE "passFailed"
           /\ plugin' = InstanceAfter(plugin, EmittedSourceOf(done.assets, assets))
    /\ UNCHANGED << config, taps, passNo, publicPath, hostAssets >>
    /\ UNCHANGED fnVars

\* The host ends the pass, successful or failed, and lets go of the compilation;
\* the compiler waits for the next run.
EndPass ==
    /\ pc \in {"passDone", "passFailed"}
    /\ pc' = "applied"
    /\ publicPath' = Undefined
    /\ hostAssets' = <<>>
    /\ assets' = <<>>
    /\ chunks' = <<>>
    /\ calls' = <<>>
    /\ emits' = 0
    /\ chunkAdds' = 0
    /\ error' = "none"
    /\ UNCHANGED << config, plugin, taps, passNo >>
    /\ UNCHANGED fnVars

Next ==
    \/ \E cfg \in Configs : Construct(cfg)
    \/ Apply
    \/ \E names \in AssetLists, thePublicPath \in PublicPaths :
           ThisCompilation(names, thePublicPath)
    \/ ProcessAssets
    \/ EndPass

Spec == Init /\ [][Next]_vars

(***************************************************************************)
(* The pure functions on their own: an argument is drawn, and the function  *)
(* is applied to it.  A file name goes through a whole pass of a plugin     *)
(* built with the default functions; a path goes through the three path     *)
(* functions.                                                               *)
(***************************************************************************)
MaxPathLen == 5

IconDigits == { <<"1">>, <<"4", "8">>, <<"1", "9", "2">>, <<"5", "1", "2">>, <<"0", "7">> }

IconHashes == { <<>>, <<"h">>, <<"a", "b", "_", "1">> }

IconPrefixes == { <<>>, <<"a", "/">>, <<"x">> }

\* names that end in manifest/icon_<N>-<hash>.<ext>, kept with their parts
IconNameInputs ==
    { [kind |-> "icon", text |-> p \o ManifestIconLiteral \o d \o <<"-">> \o h \o <<".">> \o e,
       digits |-> d, hash |-> h, ext |-> e] :
        p \in IconPrefixes, d \in IconDigits, h \in IconHashes, e \in IconExtensions }

Icon192Text == ManifestIconLiteral \o <<"1", "9", "2">>

\* names that do not end in the pattern
OtherNames ==
    { NotAnIcon, ThisIsAnIcon, LogoPng, BareIcon192, BareIcon512,
      Icon192 \o <<".", "m", "a", "p">>,
      ManifestIconLiteral \o <<"-", "h">> \o DotPng,
      Icon192Text \o DotPng,
      Icon192Text \o <<"-", "a", "-", "b">> \o DotPng,
      Icon192Text \o <<"-", "h", ".", "g", "i", "f">>,
      Icon192Text \o <<"-", "h", ".", "P", "N", "G">>,
      Icon192Text \o <<"-", "h", "p", "n", "g">>,
      <<"m", "a", "n", "i", "f", "e", "s", "t", "/", "I", "c", "o", "n", "_", "1", "-", "h">>
          \o DotPng }

OtherNameInputs ==
    { [kind |-> "other", text |-> t, digits |-> <<>>, hash |-> <<>>, ext |-> <<>>] :
        t \in OtherNames }

\* names whose size is written with zeros only
ZeroNameInputs ==
    { [kind |-> "zero", text |-> ManifestIconLiteral \o d \o <<"-", "h">> \o DotPng,
       digits |-> d, hash |-> <<"h">>, ext |-> <<"p", "n", "g">>] :
        d \in { <<"0">>, <<"0", "0">> } }

PathInputs ==
    { [kind |-> "path", text |-> t, digits |-> <<>>, hash |-> <<>>, ext |-> <<>>] :
        t \in UNION { [1..n -> {"/", "a"}] : n \in 0..MaxPathLen } }

FnInputs == IconNameInputs \cup OtherNameInputs \cup ZeroNameInputs \cup PathInputs

DefaultPlugin ==
    Constructor([content |-> EmptyContent, destination |-> DefaultDestination,
                 isAssetManifestIcon |-> "undefined", getIconSize |-> "undefined",
                 getIconType |-> "undefined"]).this

FnInit ==
    /\ MainInit
    /\ fnPc = "in"
    /\ fnIn \in FnInputs
    /\ fnOut = NoFnOut

\* one pass over the single asset fnIn.text, default functions, publicPath "/"
RunDefaultPass ==
    /\ fnPc = "in"
    /\ fnIn.kind \in {"icon", "other", "zero"}
    /\ \E done \in { processAssetsCallback(DefaultPlugin, Str(<<"/">>),
                         << [name |-> fnIn.text, source |-> <<>>] >>, <<>>) } :
           fnOut' = [NoFnOut EXCEPT !.assets = done.assets, !.chunks = done.chunks,
                                    !.error = done.error]
    /\ fnPc' = "out"
    /\ UNCHANGED fnIn
    /\ UNCHANGED mainVars

ApplyPathFunctions ==
    /\ fnPc = "in"
    /\ fnIn.kind = "path"
    /\ fnOut' = [NoFnOut EXCEPT !.left = trimSlashLeft(fnIn.text),
                                !.right = trimSlashRight(fnIn.text),
                                !.both = normalizePath(fnIn.text)]
    /\ fnPc' = "out"
    /\ UNCHANGED fnIn
    /\ UNCHANGED mainVars

FnNext == RunDefaultPass \/ ApplyPathFunctions

SpecFn == FnInit /\ [][FnNext]_vars

(***************************************************************************)
(* Reading the outputs of a pass.                                           *)
(***************************************************************************)
\* the assets of the compilation that the host did not hand in
EmittedOf(as, hostNames) == SelectSeq(as, LAMBDA a : a.name \notin Range(hostNames))

Emitted == EmittedOf(assets, hostAssets)

\* JSON.parse of an emitted text: its keys, the value under a key, its icons
ManifestKeys(content) == { content[i].key : i \in 1..Len(content) }

ManifestValue(content, k) == content[CHOOSE i \in 1..Len(content) : content[i].key = k].value

ManifestIcons(content) ==
    IF "icons" \in ManifestKeys(content) THEN ManifestValue(content, "icons").items ELSE <<>>

IconHas(icon, k) == \E i \in 1..Len(icon.members) : icon.members[i].key = k

IconField(icon, k) ==
    icon.members[CHOOSE i \in 1..Len(icon.members) : icon.members[i].key = k].value.s

EndsWith(s, suffix) ==
    Len(suffix) <= Len(s) /\ SubSeq(s, Len(s) - Len(suffix) + 1, Len(s)) = suffix

StartsWith(s, prefix) == Len(prefix) <= Len(s) /\ SubSeq(s, 1, Len(prefix)) = prefix

ImagePng == <<"i", "m", "a", "g", "e", "/", "p", "n", "g">>

AllDefault(this) ==
    /\ this.isAssetManifestIcon = "defaultIsAssetManifestIcon"
    /\ this.getIconSize = "defaultGetIconSize"
    /\ this.getIconType = "defaultGetIconType"

AllCustom(cfg) ==
    /\ cfg.isAssetManifestIcon = "customIsAssetManifestIcon"
    /\ cfg.getIconSize = "customGetIconSize"
    /\ cfg.getIconType = "customGetIconType"

\* the asset names of the pass that the instance's predicate accepts, in order
AcceptedNames ==
    SelectSeq(hostAssets,
              LAMBDA f : CallIsAssetManifestIcon(plugin.isAssetManifestIcon, f))

(***************************************************************************)
(* C1  The top-level keys of every emitted manifest are among the ten       *)
(* recognized keys; a key outside the allow-list, such as invalid_key, is   *)
(* absent whatever its value in the content handed to the constructor.      *)
(***************************************************************************)
C1_KeysWithinAllowList ==
    \A i \in 1..Len(Emitted) : ManifestKeys(Emitted[i].source) \subseteq Range(AllowedKeys)

C1_Witness ==
    /\ pc = "passDone"
    /\ HasKey(config.content, "invalid_key")
    /\ Len(Emitted) = 1
    /\ "name" \in ManifestKeys(Emitted[1].source)

(***************************************************************************)
(* C2  Each recognized scalar key for which the content handed to the       *)
(* constructor holds a defined value is a key of the emitted manifest, with *)
(* exactly that value.                                                      *)
(***************************************************************************)
ScalarKeys ==
    { "name", "short_name", "start_url", "display", "background_color", "theme_color",
      "description", "prefer_related_applications" }

\* C2: a defined scalar value of the content is in the emitted manifest, unchanged
C2_ScalarKeysPassThrough ==
    \A i \in 1..Len(Emitted) : \A k \in ScalarKeys :
        Get(config.content, k).t # "undefined" =>
            /\ k \in ManifestKeys(Emitted[i].source)
            /\ ManifestValue(Emitted[i].source, k).t = Get(config.content, k).t
            /\ ManifestValue(Emitted[i].source, k).s = Get(config.content, k).s
            /\ ManifestValue(Emitted[i].source, k).b = Get(config.content, k).b

C2_Witness ==
    /\ pc = "passDone"
    /\ config.content = TestContent
    /\ Len(Emitted) = 1
    /\ ManifestValue(Emitted[1].source, "theme_color").s = Colour

(***************************************************************************)
(* C3  The icons of the emitted manifest are one entry per asset name the   *)
(* predicate accepts and no other, in the order of the asset-name list.     *)
(***************************************************************************)
C3_IconsAreAcceptedNamesInOrder ==
    \A i \in 1..Len(Emitted) :
        /\ Len(ManifestIcons(Emitted[i].source)) = Len(AcceptedNames)
        /\ \A j \in 1..Len(ManifestIcons(Emitted[i].source)) :
               /\ IconHas(ManifestIcons(Emitted[i].source)[j], "src")
               /\ EndsWith(IconField(ManifestIcons(Emitted[i].source)[j], "src"),
                           <<"/">> \o AcceptedNames[j])

\* the accepted names are not in sorted order and a rejected name lies between them
C3_Witness ==
    /\ pc = "passDone"
    /\ hostAssets = << Icon48Jpeg, LogoPng, Icon192 >>
    /\ AcceptedNames = << Icon48Jpeg, Icon192 >>
    /\ Len(Emitted) = 1
    /\ Len(ManifestIcons(Emitted[1].source)) = 2

(***************************************************************************)
(* C4  For every string publicPath the src of the icon built from asset     *)
(* name f is publicPath without its trailing slash, then "/", then f, and   *)
(* the join of public path and file name never holds a double slash.        *)
(***************************************************************************)
WithoutTrailingSlash(p) == IF EndsWith(p, <<"/">>) THEN SubSeq(p, 1, Len(p) - 1) ELSE p

\* C4: src is publicPath less its trailing slash, "/", the file name, with no
\* double slash where the two are joined
C4_IconSrcJoinsWithOneSlash ==
    \A i \in 1..Len(Emitted) : \A j \in 1..Len(ManifestIcons(Emitted[i].source)) :
        publicPath.t = "string" =>
            /\ IconField(ManifestIcons(Emitted[i].source)[j], "src")
                   = WithoutTrailingSlash(publicPath.s) \o <<"/">> \o AcceptedNames[j]
            /\ ~EndsWith(WithoutTrailingSlash(publicPath.s), <<"/">>)
            /\ ~StartsWith(AcceptedNames[j], <<"/">>)

(***************************************************************************)
(* C5  Default functions, publicPath "/", content {}: a three-name asset     *)
(* list with two icons of 192 and 512 pixels and logo.png yields exactly    *)
(* two icons, "192x192" and "512x512", both image/png, none for logo.png.   *)
(***************************************************************************)
C5Scenario(names) ==
    /\ pc = "passDone"
    /\ AllDefault(plugin)
    /\ publicPath = Str(<<"/">>)
    /\ config.content = EmptyContent
    /\ hostAssets = names

Sizes192 == <<"1", "9", "2", "x", "1", "9", "2">>

Sizes512 == <<"5", "1", "2", "x", "5", "1", "2">>

TwoPngIcons(icons) ==
    /\ Len(icons) = 2
    /\ IconField(icons[1], "sizes") = Sizes192
    /\ IconField(icons[2], "sizes") = Sizes512
    /\ IconField(icons[1], "type") = ImagePng
    /\ IconField(icons[2], "type") = ImagePng
    /\ \A j \in 1..2 : ~EndsWith(IconField(icons[j], "src"), LogoPng)

\* C5 as stated: the names icon_192-abcd1234.png, icon_512-abcd1234.png, logo.png
\* give two icons
C5_BareNamesGiveTwoIcons ==
    C5Scenario(<< BareIcon192, BareIcon512, LogoPng >>) =>
        /\ Len(Emitted) = 1
        /\ TwoPngIcons(ManifestIcons(Emitted[1].source))

\* C5 as amended: the two icons lie in a manifest/ folder; the bare names give none
C5_ManifestFolderNamesGiveTwoIcons ==
    /\ C5Scenario(<< Icon192, Icon512, LogoPng >>) =>
           /\ Len(Emitted) = 1
           /\ TwoPngIcons(ManifestIcons(Emitted[1].source))
    /\ C5Scenario(<< BareIcon192, BareIcon512, LogoPng >>) =>
           /\ Len(Emitted) = 1
           /\ ManifestIcons(Emitted[1].source) = <<>>

C5_Witness ==
    /\ C5Scenario(<< Icon192, Icon512, LogoPng >>)
    /\ Len(Emitted) = 1
    /\ Len(ManifestIcons(Emitted[1].source)) = 2

(***************************************************************************)
(* C6  With the default functions, an asset name that ends in               *)
(* manifest/icon_<N>-<hash>.<ext>, N positive, yields exactly one icon with *)
(* sizes "<N>x<N>" and type "image/<ext>"; a name that does not end in the  *)
(* pattern yields no icon.                                                  *)
(***************************************************************************)
RECURSIVE DecimalOf(_)
DecimalOf(digits) ==
    IF Len(digits) > 1 /\ digits[1] = "0" THEN DecimalOf(Tail(digits)) ELSE digits

FnEmitted == EmittedOf(fnOut.assets, << fnIn.text >>)

CustomFunctions == { "customIsAssetManifestIcon", "customGetIconSize", "customGetIconType" }

\* C7: with the three custom functions only they are called, and they decide the icons
C7_CustomFunctionsAreUsed ==
    AllCustom(config) =>
        /\ \A i \in 1..Len(calls) : calls[i].impl \in CustomFunctions
        /\ pc = "passFailed" => error = "TypeError"
        /\ pc = "passDone" =>
               /\ Len(Emitted) = 1
               /\ Len(ManifestIcons(Emitted[1].source))
                      = Len(SelectSeq(hostAssets, customIsAssetManifestIcon))
               /\ \A j \in 1..Len(ManifestIcons(Emitted[1].source)) :
                      /\ EndsWith(IconField(ManifestIcons(Emitted[1].source)[j], "src"),
                                  <<"/">> \o SelectSeq(hostAssets, customIsAssetManifestIcon)[j])
                      /\ IconField(ManifestIcons(Emitted[1].source)[j], "sizes")
                             = <<"1", "2", "0", "x", "9", "0">>
                      /\ IconField(ManifestIcons(Emitted[1].source)[j], "type") = ImagePng

\* a name the default predicate would accept is passed over, the custom one is taken
C7_Witness ==
    /\ pc = "passDone"
    /\ AllCustom(config)
    /\ hostAssets = << Icon192, ThisIsAnIcon >>
    /\ Len(Emitted) = 1
    /\ Len(ManifestIcons(Emitted[1].source)) = 1

(***************************************************************************)
(* C8  The emitted file name is normalizePath(destination), "/manifest-",   *)
(* eight lowercase hexadecimal characters computed from the emitted text,   *)
(* ".json"; the destinations "/manifest/", "manifest/", "/manifest" and     *)
(* "manifest" give the same name.                                           *)
(***************************************************************************)
FourDestinations ==
    { <<"/">> \o ManifestLiteral \o <<"/">>, ManifestLiteral \o <<"/">>,
      <<"/">> \o ManifestLiteral, ManifestLiteral }

IsHex8(h) == Len(h) = 8 /\ \A i \in 1..Len(h) : h[i] \in Range(HexDigits)

SlashManifestDash == <<"/">> \o ManifestLiteral \o <<"-">>

C9_ChunkHoldsTheEmittedName ==
    pc = "passDone" =>
        /\ Len(Emitted) = 1
        /\ \E i \in 1..Len(chunks) : chunks[i].name = "app-manifest"
        /\ \A i \in 1..Len(chunks) :
               chunks[i].name = "app-manifest" =>
                   /\ Cardinality(chunks[i].files) = 1
                   /\ chunks[i].files = { Emitted[1].name }

C9_Witness ==
    /\ pc = "passDone"
    /\ Len(chunks) = 2
    /\ chunks[1].name = "main"
    /\ chunks[2].name = "app-manifest"
    /\ Len(Emitted) = 1
    /\ Emitted[1].name \in chunks[2].files

(***************************************************************************)
(* C10  With the instance applied once, every pass that completes has made  *)
(* exactly one emitAsset call and exactly one "app-manifest" chunk          *)
(* registration.                                                            *)
(***************************************************************************)
C10_OneEmissionAndOneChunkPerPass ==
    pc = "passDone" =>
        /\ taps = 1
        /\ emits = 1
        /\ chunkAdds = 1
        /\ Len(assets) = Len(hostAssets) + 1
        /\ Cardinality({ i \in 1..Len(chunks) : chunks[i].name = "app-manifest" }) = 1

\* a second pass of the same compiler
C10_Witness ==
    /\ pc = "passDone"
    /\ passNo = 2
    /\ emits = 1
    /\ chunkAdds = 1

(***************************************************************************)
(* C11  No partial success: a pass in which the publicPath check, the       *)
(* predicate, getIconSize or getIconType throws has emitted no asset and    *)
(* added no chunk; in every state a chunk is registered only if the asset   *)
(* was emitted; a pass that finishes without throwing has done both.        *)
(***************************************************************************)
\* the function whose call ended the callback, "none" when no call was made
LastCalled == IF calls = <<>> THEN "none" ELSE calls[Len(calls)].fn

\* C11: a failed pass emitted nothing and registered nothing, a chunk is there only
\* with the asset, and a pass without a throw did both
C11_NoPartialSuccess ==
    /\ chunkAdds > 0 => emits > 0
    /\ (\E i \in 1..Len(chunks) : chunks[i].name = "app-manifest") => Emitted # <<>>
    /\ pc = "passFailed" =>
           /\ error \in {"TypeError", "Error"}
           /\ emits = 0
           /\ chunkAdds = 0
           /\ chunks = HostChunksOf(hostAssets)
           /\ NamesOf(assets) = hostAssets
    /\ pc = "passDone" =>
           /\ error = "none"
           /\ emits = 1
           /\ chunkAdds = 1
           /\ Len(Emitted) = 1
           /\ \E i \in 1..Len(chunks) : Emitted[1].name \in chunks[i].files

\* getIconSize returned for the accepted name, then getIconType threw
C11_Witness ==
    /\ pc = "passFailed"
    /\ error = "Error"
    /\ LastCalled = "getIconType"
    /\ plugin.getIconType = "defaultGetIconType"
    /\ emits = 0
    /\ chunks = HostChunksOf(hostAssets)

\* the other three ways of failing a pass
C11_PredicateThrew == pc = "passFailed" /\ error = "Error" /\ LastCalled = "isAssetManifestIcon"

C11_GetIconSizeThrew == pc = "passFailed" /\ error = "Error" /\ LastCalled = "getIconSize"

C11_PublicPathCheckThrew == pc = "passFailed" /\ error = "TypeError"

(***************************************************************************)
(* C12  When output.publicPath is missing or is not a string, the callback  *)
(* throws a TypeError before any call of isAssetManifestIcon, getIconSize   *)
(* or getIconType; the pass emits nothing and registers no chunk.           *)
(***************************************************************************)
\* C12: without a string publicPath the pass ends in a TypeError, with no call made,
\* nothing emitted and no chunk added
C12_PublicPathMustBeString ==
    (pc \in {"passDone", "passFailed"} /\ TypeOf(publicPath) # "string") =>
        /\ pc = "passFailed"
        /\ error = "TypeError"
        /\ calls = <<>>
        /\ emits = 0
        /\ chunkAdds = 0
        /\ chunks = HostChunksOf(hostAssets)
        /\ NamesOf(assets) = hostAssets

\* a publicPath that is there but is not a string, with an icon among the assets
C12_Witness ==
    /\ pc = "passFailed"
    /\ publicPath = Bool(TRUE)
    /\ error = "TypeError"
    /\ hostAssets = << Icon192, Icon512, LogoPng >>
    /\ calls = <<>>

\* a missing publicPath
C12_WitnessMissing ==
    /\ pc = "passFailed"
    /\ publicPath = Undefined
    /\ error = "TypeError"
    /\ hostAssets # <<>>

(***************************************************************************)
(* C13  Under default wiring the describers never throw on a name the       *)
(* default predicate accepts: defaultGetIconSize and defaultGetIconType     *)
(* both return, and a pass with the three default functions does not fail   *)
(* in the icon-description step.                                            *)
(***************************************************************************)
\* C13: a name defaultIsAssetManifestIcon accepts makes neither default describer
\* throw, and the pass over it does not fail
C13_DefaultDescribersNeverThrow ==
    (fnPc = "out" /\ fnIn.kind \in {"icon", "other", "zero"}
                  /\ defaultIsAssetManifestIcon(fnIn.text)) =>
        /\ ~defaultGetIconSize(fnIn.text).threw
        /\ ~defaultGetIconType(fnIn.text).threw
        /\ fnOut.error = "none"

\* the describers fail only on an accepted name whose size reads as 0, and only
\* defaultGetIconSize does
C13_OnlyZeroSizeThrows ==
    (fnPc = "out" /\ fnIn.kind \in {"icon", "other", "zero"}
                  /\ defaultIsAssetManifestIcon(fnIn.text)) =>
        /\ ~defaultGetIconType(fnIn.text).threw
        /\ defaultGetIconSize(fnIn.text).threw <=> fnIn.kind = "zero"
        /\ fnOut.error # "none" <=> fnIn.kind = "zero"

\* manifest/icon_0-h.png is accepted by the predicate and fails the pass
C13_ZeroSizeFails ==
    /\ fnPc = "out"
    /\ fnIn.text = ManifestIconLiteral \o <<"0", "-", "h">> \o DotPng
    /\ defaultIsAssetManifestIcon(fnIn.text)
    /\ fnOut.error = "Error"
    /\ fnOut.assets = << [name |-> fnIn.text, source |-> <<>>] >>

(***************************************************************************)
(* C14  In every pass getIconSize and getIconType are called only on names  *)
(* for which isAssetManifestIcon returned a truthy value in that pass, and  *)
(* each is called exactly once per accepted name.                           *)
(***************************************************************************)
\* the names on which the call log shows the predicate returning true
AcceptedInPass ==
    { calls[i].arg : i \in { j \in 1..Len(calls) :
                                /\ calls[j].fn = "isAssetManifestIcon"
                                /\ ~IsAssetManifestIconThrows(calls[j].impl, calls[j].arg)
                                /\ CallIsAssetManifestIcon(calls[j].impl, calls[j].arg) } }

\* how many times the log shows fn called on fileName
CountCalls(fn, fileName) ==
    Cardinality({ i \in 1..Len(calls) : calls[i].fn = fn /\ calls[i].arg = fileName })

DescribersOnlyOnAccepted ==
    \A i \in 1..Len(calls) :
        calls[i].fn \in {"getIconSize", "getIconType"} => calls[i].arg \in AcceptedInPass

\* C14 as stated: in every pass, failed or not, each describer is called exactly
\* once per accepted name and on no other name
C14_ExactlyOncePerAcceptedInEveryPass ==
    pc \in {"passDone", "passFailed"} =>
        /\ DescribersOnlyOnAccepted
        /\ \A fileName \in AcceptedInPass :
               /\ CountCalls("getIconSize", fileName) = 1
               /\ CountCalls("getIconType", fileName) = 1

\* C14 as amended: the describers are called on accepted names only, at most once
\* each, getIconType only after getIconSize returned for the name; exactly once
\* each in a pass that completes
C14_OnlyOnAcceptedOnceWhenPassCompletes ==
    /\ DescribersOnlyOnAccepted
    /\ \A fileName \in Range(hostAssets) :
           /\ CountCalls("isAssetManifestIcon", fileName) <= 1
           /\ CountCalls("getIconType", fileName) <= CountCalls("getIconSize", fileName)
           /\ CountCalls("getIconSize", fileName) <= 1
    /\ pc = "passDone" =>
           /\ AcceptedInPass = Range(AcceptedNames)
           /\ \A fileName \in Range(hostAssets) :
                  /\ CountCalls("isAssetManifestIcon", fileName) = 1
                  /\ CountCalls("getIconSize", fileName)
                         = IF fileName \in AcceptedInPass THEN 1 ELSE 0
                  /\ CountCalls("getIconType", fileName)
                         = IF fileName \in AcceptedInPass THEN 1 ELSE 0

\* two accepted and two rejected names, each accepted one described once
C14_Witness ==
    /\ pc = "passDone"
    /\ AllDefault(plugin)
    /\ hostAssets = << Icon192, Icon512, NotAnIcon, ThisIsAnIcon >>
    /\ AcceptedInPass = { Icon192, Icon512 }
    /\ Len(calls) = 8

\* an accepted name on which getIconSize threw, never handed to getIconType
C14_AcceptedButNotDescribed ==
    /\ pc = "passFailed"
    /\ LastCalled = "getIconSize"
    /\ \E fileName \in AcceptedInPass : CountCalls("getIconType", fileName) = 0

(***************************************************************************)
(* C15  validateManifestContent is idempotent on every content it accepts:  *)
(* applied to its own result it succeeds and returns an equal mapping.      *)
(***************************************************************************)
\* C15: the content the constructor stored, which is validate(x), validates again
\* without a throw and to itself
C15_ValidateIsIdempotent ==
    pc \notin {"new", "rejected"} =>
        /\ plugin.content = validateManifestContent(config.content).value
        /\ ~validateManifestContent(plugin.content).threw
        /\ validateManifestContent(plugin.content).value = plugin.content

\* an accepted content with defined and undefined keys, in an order that is not
\* the order of the result
C15_Witness ==
    /\ pc = "constructed"
    /\ config.content = TestContent
    /\ plugin.content # config.content
    /\ Get(plugin.content, "display") = Str(Standalone)
    /\ validateManifestContent(plugin.content).value = plugin.content

(***************************************************************************)
(* What the specification calls a well-shaped value of a recognized key.    *)
(***************************************************************************)
StringKeys ==
    { "name", "short_name", "start_url", "background_color", "theme_color", "description" }

FourDisplayModes ==
    { <<"f", "u", "l", "l", "s", "c", "r", "e", "e", "n">>, Standalone,
      <<"m", "i", "n", "i", "m", "a", "l", "-", "u", "i">>,
      <<"b", "r", "o", "w", "s", "e", "r">> }

DisplayIsAcceptable(v) == v.t = "undefined" \/ (v.t = "string" /\ v.s \in FourDisplayModes)

\* an ordered sequence of objects each holding a string under field
IsSequenceOfObjectsWith(v, field) ==
    /\ v.t = "array"
    /\ \A i \in 1..Len(v.items) :
           /\ v.items[i].t = "object"
           /\ IF field = "src" THEN v.items[i].src.t = "string"
                               ELSE v.items[i].platform.t = "string"

\* the value under a recognized key is absent or has the shape required of it
WellShaped(k, v) ==
    \/ v.t = "undefined"
    \/ k \in StringKeys /\ v.t = "string"
    \/ k = "display" /\ DisplayIsAcceptable(v)
    \/ k = "prefer_related_applications" /\ v.t = "boolean"
    \/ k = "icons" /\ IsSequenceOfObjectsWith(v, "src")
    \/ k = "related_applications" /\ IsSequenceOfObjectsWith(v, "platform")

RecognizedKeysWellShaped(content) ==
    \A k \in Range(AllowedKeys) : WellShaped(k, Get(content, k))

(***************************************************************************)
(* C16  Validation never fails because of keys outside the ten recognized   *)
(* keys: when each recognized key is absent or well-shaped, construction    *)
(* succeeds whatever the other keys hold, a non-string lang included.       *)
(***************************************************************************)
\* C16: a content whose recognized keys are absent or well-shaped is accepted,
\* whatever it holds under other keys
C16_UnrecognizedKeysNeverFail ==
    (pc # "new" /\ RecognizedKeysWellShaped(config.content)) => pc # "rejected"

\* the ten recognized keys are all absent, lang holds the number 1: rejected
C16_NonStringLangRejected ==
    /\ pc = "rejected"
    /\ config.content = << [key |-> "lang", value |-> Num(<<"1">>)] >>
    /\ error = "AssertionError"

\* with no icons and no related_applications, the only unrecognized key that can
\* fail a content whose recognized keys are well-shaped is lang
C16_OnlyLangFails ==
    (pc # "new" /\ RecognizedKeysWellShaped(config.content)
                /\ Get(config.content, "icons").t = "undefined"
                /\ Get(config.content, "related_applications").t = "undefined") =>
        (pc = "rejected" <=> Get(config.content, "lang").t \notin {"undefined", "string"})

(***************************************************************************)
(* C17  A related_applications value that is an ordered sequence of objects *)
(* each with a string platform is accepted and appears unchanged in the     *)
(* emitted manifest.                                                        *)
(***************************************************************************)
\* C17: a sequence of objects with a string platform under related_applications is
\* accepted, and the emitted manifest holds it unchanged
C17_RelatedApplicationsAccepted ==
    (pc # "new" /\ RecognizedKeysWellShaped(config.content)
                /\ Get(config.content, "lang").t = "undefined"
                /\ Get(config.content, "icons").t = "undefined"
                /\ IsSequenceOfObjectsWith(Get(config.content, "related_applications"),
                                           "platform")) =>
        /\ pc # "rejected"
        /\ \A i \in 1..Len(Emitted) :
               /\ "related_applications" \in ManifestKeys(Emitted[i].source)
               /\ ManifestValue(Emitted[i].source, "related_applications")
                      = StringifyValue(Get(config.content, "related_applications"))

\* [{ platform: "play" }] is rejected
C17_PlatformSequenceRejected ==
    /\ pc = "rejected"
    /\ config.content
           = << [key |-> "related_applications",
                 value |-> Arr(<< ExternalApplicationResource >>)] >>

\* in the code every defined related_applications value is rejected
C17_EveryDefinedValueRejected ==
    (pc # "new" /\ Get(config.content, "related_applications").t # "undefined") =>
        pc = "rejected"

(***************************************************************************)
(* C18  An icons value supplied in the content that is an ordered sequence  *)
(* of objects each with a string src is accepted; the icons of the emitted  *)
(* manifest are the ones computed from the asset names, and the supplied    *)
(* value does not appear.                                                   *)
(***************************************************************************)
\* C18: a sequence of objects with a string src under icons is accepted, and the
\* emitted icons are those of the asset names alone
C18_UserIconsAcceptedAndOverwritten ==
    (pc # "new" /\ RecognizedKeysWellShaped(config.content)
                /\ Get(config.content, "lang").t = "undefined"
                /\ Get(config.content, "related_applications").t = "undefined"
                /\ IsSequenceOfObjectsWith(Get(config.content, "icons"), "src")) =>
        /\ pc # "rejected"
        /\ \A i \in 1..Len(Emitted) :
               Len(ManifestIcons(Emitted[i].source)) = Len(AcceptedNames)

\* [{ src: "a.png" }] is rejected
C18_SrcSequenceRejected ==
    /\ pc = "rejected"
    /\ config.content = << [key |-> "icons", value |-> Arr(<< ImageResource >>)] >>

\* in the code every defined icons value is rejected, the empty sequence included
C18_EveryDefinedValueRejected ==
    (pc # "new" /\ Get(config.content, "icons").t # "undefined") => pc = "rejected"

(***************************************************************************)
(* C19  The constructor accepts a display value exactly when it is absent   *)
(* or one of "fullscreen", "standalone", "minimal-ui", "browser", the other *)
(* keys being well-shaped; no emitted manifest holds another display value. *)
(***************************************************************************)
\* the keys other than display hold nothing that fails validation on its own
OtherKeysAccepted(content) ==
    /\ \A k \in Range(AllowedKeys) \ {"display"} : WellShaped(k, Get(content, k))
    /\ Get(content, "icons").t = "undefined"
    /\ Get(content, "related_applications").t = "undefined"
    /\ Get(content, "lang").t \in {"undefined", "string"}

\* C19: construction fails exactly when display is neither absent nor one of the
\* four modes, and an emitted display is one of the four
C19_DisplayIsOneOfFourModes ==
    /\ (pc # "new" /\ OtherKeysAccepted(config.content)) =>
           (pc = "rejected" <=> ~DisplayIsAcceptable(Get(config.content, "display")))
    /\ pc = "rejected" => error = "AssertionError"
    /\ \A i \in 1..Len(Emitted) :
           "display" \in ManifestKeys(Emitted[i].source) =>
               /\ ManifestValue(Emitted[i].source, "display").t = "string"
               /\ ManifestValue(Emitted[i].source, "display").s \in FourDisplayModes

\* a string that is not a display mode is rejected
C19_Witness ==
    /\ pc = "rejected"
    /\ config.content = << [key |-> "display", value |-> Str(<<"x">>)] >>
    /\ error = "AssertionError"

\* minimal-ui is accepted and emitted
C19_WitnessAccepted ==
    /\ pc = "passDone"
    /\ Get(config.content, "display") = Str(<<"m", "i", "n", "i", "m", "a", "l", "-", "u", "i">>)
    /\ Len(Emitted) = 1
    /\ "display" \in ManifestKeys(Emitted[1].source)

(***************************************************************************)
(* C20  In the serialized manifest the validated-content keys come first,   *)
(* in the order in which validation lists them, and icons is the last key.  *)
(***************************************************************************)
\* the keys of a JSON text in the order they are written
ManifestKeySeq(content) == [i \in 1..Len(content) |-> content[i].key]

FreshPass(cfg, names, thePublicPath) ==
    processAssetsCallback(Constructor(cfg).this, thePublicPath,
                          HostAssetsOf(names), HostChunksOf(names))

IsPositiveDecimal(s) ==
    /\ s # <<>>
    /\ \A i \in 1..Len(s) : IsDigit(s[i])
    /\ \E i \in 1..Len(s) : s[i] # "0"

IsPositiveSizes(s) ==
    \E i \in 1..Len(s) :
        /\ s[i] = "x"
        /\ IsPositiveDecimal(SubSeq(s, 1, i - 1))
        /\ IsPositiveDecimal(SubSeq(s, i + 1, Len(s)))

\* C22: every emitted icon has sizes "<w>x<h>", w and h positive integers, and a
\* src that starts with trimSlashRight(publicPath)
C22_SizesPositiveAndSrcUnderPublicPath ==
    \A i \in 1..Len(Emitted) :
        \A j \in 1..Len(ManifestIcons(Emitted[i].source)) :
            /\ IsPositiveSizes(IconField(ManifestIcons(Emitted[i].source)[j], "sizes"))
            /\ StartsWith(IconField(ManifestIcons(Emitted[i].source)[j], "src"),
                          WithoutTrailingSlash(publicPath.s))

\* a getIconSize that returns { width: 0, height: 0 } puts "0x0" in the manifest
C22_ZeroSizesEmitted ==
    /\ pc = "passDone"
    /\ plugin.getIconSize = "zeroGetIconSize"
    /\ Len(Emitted) = 1
    /\ Len(ManifestIcons(Emitted[1].source)) = 1
    /\ IconField(ManifestIcons(Emitted[1].source)[1], "sizes") = <<"0", "x", "0">>

\* what does hold: src starts with trimSlashRight(publicPath) for every icon, and
\* sizes is positive whenever getIconSize is the default or returns positive numbers
C22_HoldsForPositiveSizeFunctions ==
    \A i \in 1..Len(Emitted) :
        \A j \in 1..Len(ManifestIcons(Emitted[i].source)) :
            /\ StartsWith(IconField(ManifestIcons(Emitted[i].source)[j], "src"),
                          WithoutTrailingSlash(publicPath.s))
            /\ plugin.getIconSize # "zeroGetIconSize" =>
                   IsPositiveSizes(IconField(ManifestIcons(Emitted[i].source)[j], "sizes"))

(***************************************************************************)
(* C23  The mapping validateManifestContent returns holds only recognized   *)
(* keys whose value is defined: a recognized key that is absent from the    *)
(* input, or undefined in it, is not a key of the result, and the result    *)
(* for {} has no keys.                                                      *)
(***************************************************************************)
\* C23: the validated content of an instance has recognized keys only, each with a
\* defined value, and none at all when the content given was {}
C23_ValidatedHasOnlyDefinedKeys ==
    pc \notin {"new", "rejected"} =>
        /\ Keys(plugin.content) \subseteq Range(AllowedKeys)
        /\ \A i \in 1..Len(plugin.content) : plugin.content[i].value.t # "undefined"
        /\ config.content = EmptyContent => plugin.content = <<>>

\* for {} the result holds the ten keys, each undefined
C23_EmptyContentGivesTenKeys ==
    /\ pc = "constructed"
    /\ config.content = EmptyContent
    /\ Len(plugin.content) = 10
    /\ \A i \in 1..Len(plugin.content) : plugin.content[i].value.t = "undefined"

\* what does hold: the result has exactly the ten recognized keys, in the order of
\* the object literal, and JSON.stringify leaves the undefined ones out
C23_TenKeysAndNoneUndefinedWritten ==
    /\ pc \notin {"new", "rejected"} =>
           [i \in 1..Len(plugin.content) |-> plugin.content[i].key] = AllowedKeys
    /\ \A i \in 1..Len(Emitted) :
           \A k \in ManifestKeys(Emitted[i].source) \ {"icons"} :
               Get(plugin.content, k).t # "undefined"

(***************************************************************************)
(* C24  normalizePath returns a string without leading and trailing         *)
(* slashes: the result neither begins nor ends with "/", for "//a", "a//"   *)
(* and "//" as for every other path.                                        *)
(***************************************************************************)
\* C24: the result of normalizePath neither begins nor ends with "/"
C24_NormalizedHasNoOuterSlash ==
    (fnPc = "out" /\ fnIn.kind = "path") =>
        /\ ~StartsWith(fnOut.both, <<"/">>)
        /\ ~EndsWith(fnOut.both, <<"/">>)

\* normalizePath("//a") is "/a"
C24_DoubleLeadingSlashKeepsOne ==
    /\ fnPc = "out"
    /\ fnIn.text = <<"/", "/", "a">>
    /\ fnOut.both = <<"/", "a">>

\* the result has an outer slash exactly when the path begins or ends with two
\* slashes and is longer than "//"
C24_OnlyDoubledOuterSlashesRemain ==
    (fnPc = "out" /\ fnIn.kind = "path") =>
        ((StartsWith(fnOut.both, <<"/">>) \/ EndsWith(fnOut.both, <<"/">>))
            <=> /\ Len(fnIn.text) >= 3
                /\ \/ StartsWith(fnIn.text, <<"/", "/">>)
                   \/ EndsWith(fnIn.text, <<"/", "/">>))

(***************************************************************************)
(* C25  normalizePath removes exactly one leading "/" if the path begins    *)
(* with one and exactly one trailing "/" if the remaining path ends with    *)
(* one, and changes nothing else.                                           *)
(***************************************************************************)
WithoutLeadingSlash(p) == IF StartsWith(p, <<"/">>) THEN SubSeq(p, 2, Len(p)) ELSE p

C26_NothingCarriedAcrossPasses ==
    /\ pc \notin {"new", "rejected"} => plugin = Constructor(config).this
    /\ (passNo >= 2 /\ pc \in {"passDone", "passFailed"}) =>
           \A fresh \in { FreshPass(config, hostAssets, publicPath) } :
               /\ error = fresh.error
               /\ calls = fresh.calls
               /\ assets = fresh.assets
               /\ chunks = fresh.chunks

\* a second pass that fails, on an instance that is still as constructed
C26_Witness ==
    /\ pc = "passFailed"
    /\ passNo = 2
    /\ error = "Error"
    /\ plugin = Constructor(config).this
    /\ plugin.content # config.content

\* a second pass that emits
C26_WitnessEmits ==
    /\ pc = "passDone"
    /\ passNo = 2
    /\ hostAssets = << Icon192 >>
    /\ Len(Emitted) = 1

(***************************************************************************)
(* C27  A pass changes the host's outputs only by adding: every asset and   *)
(* every chunk present before the callback is present after it, unchanged,  *)
(* the additions being one manifest asset and one "app-manifest" chunk; a   *)
(* failing pass leaves assets and chunks exactly as they were.              *)
(***************************************************************************)
\* C27: after a pass the host's assets and chunks are there as before, followed by
\* one asset and one "app-manifest" chunk when the pass completed, by nothing when
\* it failed
C27_PassOnlyAdds ==
    /\ pc = "passFailed" =>
           /\ assets = HostAssetsOf(hostAssets)
           /\ chunks = HostChunksOf(hostAssets)
    /\ pc = "passDone" =>
           /\ Len(assets) = Len(hostAssets) + 1
           /\ SubSeq(assets, 1, Len(hostAssets)) = HostAssetsOf(hostAssets)
           /\ assets[Len(assets)].name \notin Range(hostAssets)
           /\ Len(chunks) = Len(HostChunksOf(hostAssets)) + 1
           /\ SubSeq(chunks, 1, Len(chunks) - 1) = HostChunksOf(hostAssets)
           /\ chunks[Len(chunks)].name = "app-manifest"

\* three host assets and the host's chunk, then the manifest and its chunk
C27_Witness ==
    /\ pc = "passDone"
    /\ hostAssets = << Icon192, Icon512, LogoPng >>
    /\ Len(assets) = 4
    /\ Len(chunks) = 2
    /\ chunks[1].name = "main"
    /\ chunks[1].files = { Icon192, Icon512, LogoPng }

\* a failed pass with host assets and a host chunk
C27_WitnessFailed ==
    /\ pc = "passFailed"
    /\ Len(assets) = 3
    /\ Len(chunks) = 1

(***************************************************************************)
(* C28  A recognized key whose value is null is treated like an undefined   *)
(* one: validation does not fail, and the key is cleaned out of the         *)
(* validated manifest, so it is not in the emitted manifest.                *)
(***************************************************************************)
\* the recognized keys under which the content holds null
NullKeys(content) == { k \in Range(AllowedKeys) : Get(content, k).t = "null" }

\* C28: a content with null under a recognized key, and nothing else wrong, is
\* accepted, and the key is in no emitted manifest
C28_NullIsTreatedAsUndefined ==
    (pc # "new" /\ NullKeys(config.content) # {}
                /\ \A k \in InputKeys \ NullKeys(config.content) :
                       Get(config.content, k).t = "undefined") =>
        /\ pc # "rejected"
        /\ \A i \in 1..Len(Emitted) :
               ManifestKeys(Emitted[i].source) \cap NullKeys(config.content) \subseteq {"icons"}

\* { name: null } is rejected
C28_NullNameRejected ==
    /\ pc = "rejected"
    /\ config.content = << [key |-> "name", value |-> Null] >>
    /\ error = "AssertionError"

\* in the code null under any recognized key, or under lang, fails the construction
C28_EveryNullRejected ==
    (pc # "new" /\ (NullKeys(config.content) # {} \/ Get(config.content, "lang").t = "null")) =>
        pc = "rejected"

(***************************************************************************)
(* C29  The emitted file name is a relative path with a non-empty directory *)
(* part: it never begins with "/" and never has "//" before "manifest-",    *)
(* for the destinations "", "/", "//out" and "out//" as for the others.     *)
(***************************************************************************)
Contains(s, part) ==
    \E i \in 1..(Len(s) - Len(part) + 1) : SubSeq(s, i, i + Len(part) - 1) = part

\* C29: no emitted name begins with "/" or holds "//manifest-"
C29_FileNameIsRelative ==
    \A i \in 1..Len(Emitted) :
        /\ ~StartsWith(Emitted[i].name, <<"/">>)
        /\ ~Contains(Emitted[i].name, <<"/">> \o SlashManifestDash)

\* destination "" gives a name that begins with "/"
C29_EmptyDestinationGivesRootedName ==
    /\ pc = "passDone"
    /\ config.destination = <<>>
    /\ Len(Emitted) = 1
    /\ StartsWith(Emitted[1].name, SlashManifestDash)

\* destination "out//" gives "out//manifest-..."
C29_DoubleSlashBeforeManifest ==
    /\ pc = "passDone"
    /\ config.destination = <<"o", "u", "t", "/", "/">>
    /\ Len(Emitted) = 1
    /\ StartsWith(Emitted[1].name, <<"o", "u", "t", "/">> \o SlashManifestDash)

\* the name is relative, with one slash before "manifest-", exactly when the
\* destination holds a directory name with at most one slash at each end
C29_HoldsForSingleSlashes ==
    \A i \in 1..Len(Emitted) :
        (/\ ~StartsWith(Emitted[i].name, <<"/">>)
         /\ ~Contains(Emitted[i].name, <<"/">> \o SlashManifestDash))
            <=> config.destination \in FourDestinations

(***************************************************************************)
(* C30  The content is validated in the constructor, before apply can tap   *)
(* a hook: a content that fails validation gives no instance, so no pass    *)
(* starts with content that was not validated and no pass fails because of  *)
(* the shape of the content; every pass uses the mapping validated at       *)
(* construction.                                                            *)
(***************************************************************************)
\* C30: a rejected content leaves no instance, no tap and no pass; an instance
\* there is holds the validated content; a pass fails only in the publicPath check
\* or in a classifier function
C30_ValidatedOnceAtConstruction ==
    /\ pc = "rejected" =>
           /\ validateManifestContent(config.content).threw
           /\ error = "AssertionError"
           /\ plugin = NoPlugin
           /\ taps = 0
           /\ passNo = 0
    /\ pc \notin {"new", "rejected"} =>
           /\ ~validateManifestContent(config.content).threw
           /\ plugin.content = validateManifestContent(config.content).value
    /\ (taps > 0 \/ passNo > 0) => pc \notin {"new", "rejected"}
    /\ pc = "passFailed" => error \in {"TypeError", "Error"}
    /\ pc \in {"compiling", "passDone", "passFailed"} => taps = 1

\* a content with a number under name: no instance, no tap
C30_Witness ==
    /\ pc = "rejected"
    /\ config.content = << [key |-> "name", value |-> Num(<<"1">>)] >>
    /\ plugin = NoPlugin
    /\ taps = 0

\* the second pass of an instance uses the content validated at construction
C30_WitnessSecondPass ==
    /\ pc = "passDone"
    /\ passNo = 2
    /\ config.content = TestContent
    /\ plugin.content = validateManifestContent(TestContent).value
    /\ Len(Emitted) = 1
    /\ ManifestValue(Emitted[1].source, "name").s = Tumblr

====
